---- MODULE Spec2Model ----
(***************************************************************************)
(* Model of the codecks-telegram-bot project cache.                        *)
(*                                                                         *)
(*   codecks_data.py   CodecksData: snapshot (self.data), two asyncio      *)
(*                     locks, last_update, on-disk mirror, readers         *)
(*   codecks_api.py    CodecksAPI: fetch_project / fetch_history /         *)
(*                     fetch_cards, each a payload or None                 *)
(*   codecks.py        Codecks: async_init and the background loop         *)
(*   bot.py            Bot.start (host task) and Bot.shutdown              *)
(*   telegram_helpers  Telegram.stop and the reading command handlers      *)
(*                                                                         *)
(* Tasks take one step per action; a step ends wherever the code has an    *)
(* `await` or enters / leaves an `async with`.  Tasks are interleaved at   *)
(* every such point, which includes every schedule of the event loop.      *)
(* Python objects that are shared by reference (the "deck" and "card"      *)
(* mappings of self.data) live in `heap`; variables hold object ids.       *)
(***************************************************************************)
EXTENDS Integers, Sequences, FiniteSets, TLC

\* ------------------------------------------------------------------ bounds
\* refresh cycles the background task may begin
MaxCycles == 2
\* edits made on the remote service
MaxEdits == 1
\* times the process is started again on the files it left
MaxRestarts == 1
\* pieces (date tokens, other text) in the content of a card
MaxPieces == 2

\* --------------------------------------------------------------- constants
\* clock ticks per second: datetime.now() is finer than the "%S" of strftime
TicksPerSec == 2
\* codecks.py: BACKGROUND_PROCESS_INTERVAL, in seconds
BACKGROUND_PROCESS_INTERVAL == 60
\* clock value (in ticks) at process start
StartTick == 3

Cards == {"c1", "c2"}
Decks == {"d1"}
Readers == {"r1"}
Refreshers == {"bg1", "bg2"}
ReadOps == {"get_decks", "get_cards", "get_card_info", "get_due_cards"}

VARIABLES
    data,              \* self.data: top-level dict, key -> object id / value
    heap,              \* object id -> the mapping object it names
    last_update,       \* self.last_update
    data_lock,         \* self.data_lock: "free" or the task holding it
    last_update_lock,  \* self.last_update_lock
    mirror,            \* data/<subdomain>/codecks.json
    remote_card,       \* card service: card id -> current field values
    activities,        \* card service: activity records
    nedits,            \* edits made so far
    calls,             \* remote calls issued, per operation
    now,               \* the clock, in ticks
    mpc,               \* Bot.start: position of the host task
    mlocal,            \* Bot.start: locals of the call in progress
    stay_alive,        \* Bot.stay_alive
    shutdown,          \* Codecks.shutdown
    bg,                \* background tasks made by asyncio.create_task
    ncycles,           \* refresh cycles begun, over all runs of the process
    rd,                \* command handlers reading the cache
    stop_called,       \* Telegram.stop has invoked shutdown_callback
    mirror0,           \* the mirror the process found when it started
    written,           \* what save_project last put into the file, from memory
    nrestarts,         \* times the process has been started again
    req,               \* a call of the remote client: what it met, how it ended
    reply,             \* a call of a read operation: its arguments, how it ended
    delivered          \* the activities some fetch_history call has returned

cacheVars == <<data, heap, last_update, data_lock, last_update_lock, mirror>>
remoteVars == <<remote_card, activities, nedits, calls>>
timeVars == <<now>>
mainVars == <<mpc, mlocal, stay_alive>>
bgVars == <<bg, shutdown, ncycles>>
rdVars == <<rd, stop_called>>
histVars == <<mirror0, written, nrestarts, req, reply, delivered>>
vars == <<cacheVars, remoteVars, timeVars, mainVars, bgVars, rdVars, histVars>>

\* ------------------------------------------------------------ Python values
\* None, and a returned dict
None == <<>>
Some(d) == <<d>>
\* `if response:` - None and the empty dict are false
Truthy(r) == r # None /\ DOMAIN r[1] # {}

\* timestamps: a datetime object or a "%Y-%m-%dT%H:%M:%SZ" string; both
\* carry whole seconds
TsDatetime(s) == [repr |-> "datetime", sec |-> s]
TsStr(s) == [repr |-> "str", sec |-> s]
\* a string that is no timestamp
BadStr == [repr |-> "str", sec |-> -1]
\* datetime.datetime(1970, 1, 1)
Epoch == TsDatetime(0)

\* datetime.now(timezone.utc).strftime("%Y-%m-%dT%H:%M:%SZ") at clock t:
\* the fraction of the second is dropped
Strftime(t) == TsStr(t \div TicksPerSec)
\* datetime.strptime(v, "%Y-%m-%dT%H:%M:%SZ") succeeds on a well-formed string
StrptimeOk(v) == v.repr = "str" /\ v.sec >= 0
\* a faulty variant: only the date is parsed ("%Y-%m-%d"), the time of day is lost
Strptime_DateOnly(v) == TsDatetime(0)
Strptime(v) == TsDatetime(v.sec)

\* dict.update(r): every key of r is bound to r's value, other keys stay
DictUpdate(d, r) == [k \in DOMAIN d \cup DOMAIN r |->
                        IF k \in DOMAIN r THEN r[k] ELSE d[k]]
\* d[k] = v
DictSet(d, k, v) == DictUpdate(d, k :> v)

\* ------------------------------------------------------------------- heap
RefKeys == {"deck", "card"}
EmptyDict == <<>>
\* object id 0 is a fresh empty dict (the default of dict.get)
Deref(h, o) == IF o \in DOMAIN h THEN h[o] ELSE EmptyDict
FreshId(h) == CHOOSE o \in 1..(Cardinality(DOMAIN h) + 1) : o \notin DOMAIN h
\* dict.get(k, {}) on self.data, as an object id
GetRef(d, k) == IF k \in DOMAIN d THEN d[k] ELSE 0
\* objects still referenced by self.data or by a reader's locals
Live(d, r) == {d[k] : k \in DOMAIN d \cap RefKeys}
                 \cup {r[x].cards : x \in DOMAIN r} \cup {r[x].decks : x \in DOMAIN r}
Collect(h, d, r) == [o \in DOMAIN h \cap Live(d, r) |-> h[o]]

\* a decoded JSON document doc (values) as a dict of fresh objects:
\* json.load / response.json() build new mapping objects
DocKeysAsRefs(doc, h) ==
    LET o1 == FreshId(h)
        h1 == IF "deck" \in DOMAIN doc THEN h @@ (o1 :> doc["deck"]) ELSE h
        o2 == FreshId(h1)
        h2 == IF "card" \in DOMAIN doc THEN h1 @@ (o2 :> doc["card"]) ELSE h1
    IN  [d |-> [k \in DOMAIN doc |->
                   IF k = "deck" THEN o1 ELSE IF k = "card" THEN o2 ELSE doc[k]],
         h |-> h2]
\* json.dump(self.data): the document the dict and its objects stand for
Serialize(d, h) == [k \in DOMAIN d |-> IF k \in RefKeys THEN Deref(h, d[k]) ELSE d[k]]
\* json.dump raises TypeError on a datetime object
Serializable(d) == "last_update" \in DOMAIN d => d["last_update"].repr = "str"

\* the snapshot as values: what self.data.get("card", {}) / ("deck", {}) hold
SnapCards == Deref(heap, GetRef(data, "card"))
SnapDecks == Deref(heap, GetRef(data, "deck"))

\* ------------------------------------------------------------------ mirror
NoFile == [st |-> "absent", doc |-> EmptyDict]
Garbled == [st |-> "garbled", doc |-> EmptyDict]
File(doc) == [st |-> "doc", doc |-> doc]
\* a faulty variant: only a parseable file counts as present
Exists_Parseable(m) == m.st = "doc"
\* os.path.exists(self.data_filepath)
Exists(m) == m.st # "absent"

\* ----------------------------------------------------------------- remote
RemoteDecks == [d \in Decks |-> 0]
\* fetch_project: the whole account
ProjectPayload == [deck |-> RemoteDecks, card |-> remote_card]
\* fetch_history: activities created strictly after `since`
HistoryPayload(since) ==
    [activity |-> {a \in activities : a.createdAt > since.sec * TicksPerSec}]
\* fetch_cards: the current values of the requested ids
CardsPayload(ids) == [card |-> [c \in ids \cap DOMAIN remote_card |-> remote_card[c]]]

\* ------------------------------------------------------------ CodecksAPI
\* how a call ends: it returns a value or raises an exception
Return(v) == [kind |-> "return", value |-> v, exc |-> "none"]
Raise(e) == [kind |-> "raise", value |-> None, exc |-> e]
\* the status codes handle_response names, and two it does not
Statuses == {200, 204, 400, 401, 404, 408, 500, 503}
\* exception classes with their base classes
ExcBases(e) ==
    CASE e = "Timeout" -> {"Timeout", "RequestException", "Exception"}
      [] e = "ConnectionError" -> {"ConnectionError", "RequestException", "Exception"}
      [] e = "JSONDecodeError" -> {"JSONDecodeError", "ValueError", "Exception"}
      [] OTHER -> {e, "Exception"}
\* requests.request(..., timeout=10) on a query whose answer is body: it
\* raises, or returns a response with a status and a body that is the JSON
\* answer or is not JSON
Response(status, decodable, body) ==
    [status_code |-> status, decodable |-> decodable, body |-> body]
RequestsRequest(body) ==
    {Raise(e) : e \in {"Timeout", "ConnectionError", "ValueError"}}
      \cup {Return(Response(st, dec, body)) : st \in Statuses, dec \in BOOLEAN}
\* response.json()
ResponseJson(response) ==
    IF response.decodable THEN Return(Some(response.body)) ELSE Raise("JSONDecodeError")
\* a faulty variant: the body is decoded whatever the status
HandleResponse_AnyStatus(response) == ResponseJson(response)
\* handle_response: the decoded body on status 200, None (after logging) on
\* every other status
HandleResponse(response) ==
    IF response.status_code = 200 THEN ResponseJson(response) ELSE Return(None)
\* the except clauses of make_request, in order
ExceptClauses == <<"Timeout", "RequestException", "Exception">>
\* make_request on what requests.request did: the try block returns what
\* handle_response returns; an exception a clause matches is logged and None
\* is returned; an exception no clause matches goes on to the caller
MakeRequestOn(t) ==
    LET r == IF t.kind = "raise" THEN t ELSE HandleResponse(t.value)
    IN  IF r.kind = "return" THEN r
        ELSE IF \E i \in DOMAIN ExceptClauses : ExceptClauses[i] \in ExcBases(r.exc)
             THEN Return(None)
             ELSE r
\* the values an awaited fetch_project / fetch_history / fetch_cards can give
\* when the answer to its query is body
MakeRequest(body) ==
    {o.value : o \in {x \in {MakeRequestOn(t) : t \in RequestsRequest(body)} :
                          x.kind = "return"}}

\* ------------------------------------------------------------------- tasks
\* `issued` is the clock when fetch_project was issued and `boot` the second
\* last_update stood at when load_project returned (read by the properties
\* only)
MainLocal0 == [response |-> None, last_updated |-> Epoch, issued |-> 0, boot |-> 0]
\* what a refresh cycle found when it began (read by the properties only)
CycleStart == [last_update |-> last_update, cards |-> SnapCards, decks |-> SnapDecks,
               mirror |-> mirror, calls |-> calls]
Bg0 == [pc |-> "none", last_update_time |-> Epoch, response |-> None,
        card_ids |-> {}, cresponse |-> None, wake |-> 0,
        start |-> [last_update |-> Epoch, cards |-> EmptyDict, decks |-> EmptyDict,
                   mirror |-> NoFile,
                   calls |-> [project |-> 0, history |-> 0, cards |-> 0]]]
Rd0 == [pc |-> "idle", op |-> "get_decks", cards |-> 0, decks |-> 0,
        seen_decks |-> EmptyDict, seen |-> EmptyDict,
        snap_cards |-> EmptyDict, snap_decks |-> EmptyDict]

\* mirrors a start can find: none, an unparseable file, a document written by
\* an earlier run, and documents whose last_update is missing or malformed
OldDoc == [deck |-> RemoteDecks, card |-> [c \in Cards |-> 0]]
InitMirrors ==
    {NoFile, Garbled, File(OldDoc),
     File(DictSet(OldDoc, "last_update", BadStr))}
      \cup {File(DictSet(OldDoc, "last_update", TsStr(0)))}

\* the process is started on one of the files in mirrors
InitOn(mirrors) ==
    /\ data = EmptyDict
    /\ heap = EmptyDict
    /\ last_update = Epoch
    /\ data_lock = "free"
    /\ last_update_lock = "free"
    /\ mirror \in mirrors
    /\ mirror0 = mirror
    /\ written = None
    /\ nrestarts = 0
    /\ req = None
    /\ reply = None
    /\ delivered = {}
    /\ remote_card = [c \in Cards |-> 0]
    /\ activities = {}
    /\ nedits = 0
    /\ calls = [project |-> 0, history |-> 0, cards |-> 0]
    /\ now = StartTick
    /\ mpc = "load_project"
    /\ mlocal = MainLocal0
    /\ stay_alive = TRUE
    /\ shutdown = FALSE
    /\ bg = [t \in Refreshers |-> Bg0]
    /\ ncycles = 0
    /\ rd = [r \in Readers |-> Rd0]
    /\ stop_called = FALSE

Init == InitOn(InitMirrors)

\* ------------------------------------------------- environment: time, remote
\* time passes (one tick) and a user of the card service changes card c: its
\* values change and an activity record with the time of the change is created
RemoteEdit(c) ==
    /\ nedits < MaxEdits
    /\ nedits' = nedits + 1
    /\ now' = now + 1
    /\ remote_card' = [remote_card EXCEPT ![c] = @ + 1]
    /\ activities' = activities \cup {[card |-> c, createdAt |-> now']}
    /\ UNCHANGED <<histVars, calls, cacheVars, mainVars, bgVars, rdVars>>

\* ------------------------------------------- CodecksData.load_project (main)
\* load_project: `if not os.path.exists(self.data_filepath)`
LoadProject_Check ==
    /\ mpc = "load_project"
    /\ mpc' = IF Exists(mirror) THEN "lp_open" ELSE "gp_lock"
    /\ UNCHANGED <<histVars, mlocal, stay_alive, cacheVars, remoteVars, timeVars, bgVars, rdVars>>

\* get_project_data: `async with self.last_update_lock` is entered
GetProjectData_Lock ==
    /\ mpc = "gp_lock"
    /\ last_update_lock = "free"
    /\ last_update_lock' = "main"
    /\ mpc' = "gp_stamp"
    /\ UNCHANGED <<histVars, data, heap, last_update, data_lock, mirror, mlocal, stay_alive,
                   remoteVars, timeVars, bgVars, rdVars>>

\* get_project_data: last_update = now, the lock is left and fetch_project
\* is issued
GetProjectData_Stamp ==
    /\ mpc = "gp_stamp"
    /\ last_update' = Strftime(now)
    /\ last_update_lock' = "free"
    /\ calls' = [calls EXCEPT !.project = @ + 1]
    /\ mlocal' = [mlocal EXCEPT !.issued = now]
    /\ mpc' = "gp_fetch"
    /\ UNCHANGED <<histVars, data, heap, data_lock, mirror, stay_alive,
                   remote_card, activities, nedits, timeVars, bgVars, rdVars>>

\* fetch_project returns
FetchProject_Return ==
    /\ mpc = "gp_fetch"
    /\ \E r \in MakeRequest(ProjectPayload) :
          mlocal' = [mlocal EXCEPT !.response = r]
    /\ mpc' = "gp_response"
    /\ UNCHANGED <<histVars, stay_alive, cacheVars, remoteVars, timeVars, bgVars, rdVars>>

\* get_project_data: `if response:` then `async with self.data_lock`,
\* else the error is logged and load_project goes on
GetProjectData_Response ==
    /\ mpc = "gp_response"
    /\ IF Truthy(mlocal.response)
       THEN /\ data_lock = "free"
            /\ data_lock' = "main"
            /\ mpc' = "gp_install"
       ELSE /\ mpc' = "lp_open"
            /\ UNCHANGED data_lock
    /\ UNCHANGED <<histVars, data, heap, last_update, last_update_lock, mirror, mlocal,
                   stay_alive, remoteVars, timeVars, bgVars, rdVars>>

\* get_project_data: self.data = response, then save_project is awaited and
\* enters `async with self.last_update_lock`
GetProjectData_Install ==
    /\ mpc = "gp_install"
    /\ last_update_lock = "free"
    /\ LET n == DocKeysAsRefs(mlocal.response[1], heap)
       IN  /\ data' = n.d
           /\ heap' = Collect(n.h, n.d, rd)
    /\ last_update_lock' = "main"
    /\ mpc' = "sp_read"
    /\ UNCHANGED <<histVars, last_update, data_lock, mirror, mlocal, stay_alive,
                   remoteVars, timeVars, bgVars, rdVars>>

\* save_project: last_updated = self.last_update, the lock is left
SaveProject_Read ==
    /\ mpc = "sp_read"
    /\ mlocal' = [mlocal EXCEPT !.last_updated = last_update]
    /\ last_update_lock' = "free"
    /\ mpc' = "sp_write"
    /\ UNCHANGED <<histVars, data, heap, last_update, data_lock, mirror, stay_alive,
                   remoteVars, timeVars, bgVars, rdVars>>

\* the file after open(..., "w") and json.dump(self.data, file): the document
\* when the write goes through; on an error the file as it was (open failed)
\* or a truncated one (the dump failed part-way, as it does on a datetime)
WriteFile(d, h, m) ==
    IF Serializable(d) THEN {File(Serialize(d, h)), m, Garbled} ELSE {Garbled}

\* `if not os.path.exists(self.data_dir): os.makedirs(...)`: with the file
\* there the directory is there; without it the directory may be missing, and
\* creating it goes through or raises OSError (no permission, read-only disk)
MakeDirs(m) == IF Exists(m) THEN {"ok"} ELSE {"ok", "raise"}

\* save_project: the directory is made if it is missing,
\* self.data["last_update"] = last_updated and the file is written; back in
\* get_project_data the data lock is left.  os.makedirs stands before the
\* `try`: when it raises, the exception leaves save_project,
\* get_project_data (the data lock is released), load_project (line 33 is
\* before its `try`), async_init and Bot.start, and asyncio.run ends
SaveProject_Write ==
    /\ mpc = "sp_write"
    /\ \E made \in MakeDirs(mirror) :
          IF made = "raise"
          THEN /\ mpc' = "crashed"
               /\ UNCHANGED <<data, mirror, written>>
          ELSE /\ data' = DictSet(data, "last_update", mlocal.last_updated)
               /\ mirror' \in WriteFile(data', heap, mirror)
               /\ written' = IF mirror' = File(Serialize(data', heap)) /\ Serializable(data')
                             THEN Some([deck |-> SnapDecks, card |-> SnapCards,
                                        last_update |-> mlocal.last_updated,
                                        by |-> nrestarts])
                             ELSE written
               /\ mpc' = "lp_open"
    /\ data_lock' = "free"
    /\ UNCHANGED <<mirror0, nrestarts, req, reply, delivered, heap, last_update, last_update_lock, mlocal,
                   stay_alive, remoteVars, timeVars, bgVars, rdVars>>

\* load_project: open and json.load; on success self.data is the document and
\* `async with self.last_update_lock` is entered, on an exception (no file,
\* unparseable) the error is logged and self.data stays
LoadProject_Open ==
    /\ mpc = "lp_open"
    /\ IF mirror.st = "doc"
       THEN /\ last_update_lock = "free"
            /\ LET keep == Collect(heap, EmptyDict, rd)
                   m == DocKeysAsRefs(mirror.doc, keep)
               IN  /\ data' = m.d
                   /\ heap' = m.h
            /\ last_update_lock' = "main"
            /\ mpc' = "lp_stamp"
       ELSE /\ mpc' = "lp_done"
            /\ UNCHANGED <<histVars, data, heap, last_update_lock>>
    /\ UNCHANGED <<histVars, last_update, data_lock, mirror, mlocal, stay_alive,
                   remoteVars, timeVars, bgVars, rdVars>>

\* a faulty variant: the time of loading is taken instead of the stored one
LoadProject_Stamp_Now ==
    /\ mpc = "lp_stamp"
    /\ last_update' = Strptime(Strftime(now))
    /\ last_update_lock' = "free"
    /\ mpc' = "lp_done"
    /\ UNCHANGED <<histVars, data, heap, data_lock, mirror, mlocal, stay_alive,
                   remoteVars, timeVars, bgVars, rdVars>>
\* load_project: last_update = strptime(self.data.get("last_update"), ...);
\* a missing or malformed value raises, which leaves the lock and is logged
LoadProject_Stamp ==
    /\ mpc = "lp_stamp"
    /\ last_update' = IF "last_update" \in DOMAIN data /\ StrptimeOk(data["last_update"])
                      THEN Strptime(data["last_update"])
                      ELSE last_update
    /\ last_update_lock' = "free"
    /\ mpc' = "lp_done"
    /\ UNCHANGED <<histVars, data, heap, data_lock, mirror, mlocal, stay_alive,
                   remoteVars, timeVars, bgVars, rdVars>>

\* ------------------------------------------------------ the process, again
\* the process ends (at any point) and is started again: CodecksData.__init__
\* builds an empty cache, the file and the card service are as they were left
Restart ==
    /\ nrestarts < MaxRestarts
    /\ nrestarts' = nrestarts + 1
    /\ mirror0' = mirror
    /\ data' = EmptyDict
    /\ heap' = EmptyDict
    /\ last_update' = Epoch
    /\ data_lock' = "free"
    /\ last_update_lock' = "free"
    /\ mpc' = "load_project"
    /\ mlocal' = MainLocal0
    /\ stay_alive' = TRUE
    /\ shutdown' = FALSE
    /\ bg' = [t \in Refreshers |-> Bg0]
    /\ rd' = [r \in Readers |-> Rd0]
    /\ stop_called' = FALSE
    /\ UNCHANGED <<mirror, written, req, reply, delivered, ncycles, remoteVars, timeVars>>

\* ------------------------------------------------ Codecks.async_init, Bot
\* a faulty variant: the task is created twice
CreateTask_Twice(b) == [t \in Refreshers |-> [b[t] EXCEPT !.pc = "loop"]]
\* asyncio.create_task(self.check_for_activity_process()): one more task
CreateTask(b) ==
    IF \E t \in Refreshers : b[t].pc = "none"
    THEN LET t == CHOOSE t \in Refreshers : b[t].pc = "none"
         IN  [b EXCEPT ![t].pc = "loop"]
    ELSE b

\* async_init: load_project has returned, the background task is created
AsyncInit_CreateTask ==
    /\ mpc = "lp_done"
    /\ bg' = CreateTask(bg)
    /\ mlocal' = [mlocal EXCEPT !.boot = last_update.sec]
    /\ mpc' = "tg_setup"
    /\ UNCHANGED <<histVars, stay_alive, shutdown, ncycles, cacheVars, remoteVars,
                   timeVars, rdVars>>

\* Bot.start: the handlers are added, the application is started and polls
Bot_StartPolling ==
    /\ mpc = "tg_setup"
    /\ mpc' = "alive"
    /\ UNCHANGED <<histVars, mlocal, stay_alive, cacheVars, remoteVars, timeVars, bgVars, rdVars>>

\* Bot.start: one round of `while self.stay_alive: await asyncio.sleep(1)`;
\* when the flag is false the `finally` block stops the application
Bot_StayAlive ==
    /\ mpc = "alive"
    /\ mpc' = IF stay_alive THEN "alive" ELSE "stopped"
    /\ UNCHANGED <<histVars, mlocal, stay_alive, cacheVars, remoteVars, timeVars, bgVars, rdVars>>

\* the application handles commands
Polling == mpc = "alive"

\* Telegram.stop: an authorised user gets the reply and
\* `self.shutdown_callback()` is called: Bot.shutdown is a coroutine function,
\* the call makes a coroutine object that is never awaited, so its body
\* (self.stay_alive = False) does not run
Stop ==
    /\ Polling
    /\ \E authorised \in BOOLEAN :
          stop_called' = (stop_called \/ authorised)
    /\ UNCHANGED <<histVars, rd, cacheVars, remoteVars, timeVars, mainVars, bgVars>>

\* ------------------------------------ Codecks.check_for_activity_process
\* response.get("activity", [])
ActivityData(r) == IF r # None /\ "activity" \in DOMAIN r[1] THEN r[1]["activity"] ELSE {}
Interval == BACKGROUND_PROCESS_INTERVAL * TicksPerSec
\* a faulty variant: a cycle that got nothing from the service ends the task
ToSleep_StopOnFailure(b) ==
    IF Truthy(b.response) /\ (ActivityData(b.response) = {} \/ Truthy(b.cresponse))
    THEN [b EXCEPT !.pc = "sleep", !.wake = now + Interval]
    ELSE [b EXCEPT !.pc = "exited"]
\* get_history_data has returned: `await asyncio.sleep(INTERVAL)`
ToSleep(b) == [b EXCEPT !.pc = "sleep", !.wake = now + Interval]

\* `while not self.shutdown:` - the next cycle begins with get_history_data
CheckForActivity_Loop(t) ==
    /\ bg[t].pc = "loop"
    /\ IF shutdown
       THEN /\ bg' = [bg EXCEPT ![t].pc = "exited"]
            /\ UNCHANGED ncycles
       ELSE /\ ncycles < MaxCycles
            /\ ncycles' = ncycles + 1
            /\ bg' = [bg EXCEPT ![t] = [Bg0 EXCEPT !.pc = "gh_lock",
                                                   !.start = CycleStart]]
    /\ UNCHANGED <<histVars, shutdown, cacheVars, remoteVars, timeVars, mainVars, rdVars>>

\* asyncio.sleep is over once the interval has passed
CheckForActivity_Wake(t) ==
    /\ bg[t].pc = "sleep"
    /\ now' = IF now < bg[t].wake THEN bg[t].wake ELSE now
    /\ bg' = [bg EXCEPT ![t].pc = "loop"]
    /\ UNCHANGED <<histVars, shutdown, ncycles, cacheVars, remoteVars, mainVars, rdVars>>

\* ------------------------------------------- CodecksData.get_history_data
\* `async with self.last_update_lock` is entered
GetHistoryData_Lock(t) ==
    /\ bg[t].pc = "gh_lock"
    /\ last_update_lock = "free"
    /\ last_update_lock' = t
    /\ bg' = [bg EXCEPT ![t].pc = "gh_read"]
    /\ UNCHANGED <<histVars, data, heap, last_update, data_lock, mirror, shutdown, ncycles,
                   remoteVars, timeVars, mainVars, rdVars>>

\* a faulty variant: fetch_history is issued inside the `async with` block
GetHistoryData_Read_HoldLock(t) ==
    /\ bg[t].pc = "gh_read"
    /\ bg' = [bg EXCEPT ![t].pc = "gh_fetch", ![t].last_update_time = last_update]
    /\ calls' = [calls EXCEPT !.history = @ + 1]
    /\ UNCHANGED <<histVars, cacheVars, shutdown, ncycles,
                   remote_card, activities, nedits, timeVars, mainVars, rdVars>>
\* last_update_time = self.last_update, the lock is left, fetch_history is issued
GetHistoryData_Read(t) ==
    /\ bg[t].pc = "gh_read"
    /\ bg' = [bg EXCEPT ![t].pc = "gh_fetch", ![t].last_update_time = last_update]
    /\ last_update_lock' = "free"
    /\ calls' = [calls EXCEPT !.history = @ + 1]
    /\ UNCHANGED <<histVars, data, heap, last_update, data_lock, mirror, shutdown, ncycles,
                   remote_card, activities, nedits, timeVars, mainVars, rdVars>>

\* fetch_history returns
FetchHistory_Return(t) ==
    /\ bg[t].pc = "gh_fetch"
    /\ \E r \in MakeRequest(HistoryPayload(bg[t].last_update_time)) :
          /\ bg' = [bg EXCEPT ![t].pc = "gh_response", ![t].response = r]
          /\ delivered' = delivered \cup ActivityData(r)
    /\ UNCHANGED <<mirror0, written, nrestarts, req, reply, shutdown, ncycles, cacheVars,
                   remoteVars, timeVars, mainVars, rdVars>>

\* a faulty variant: the cycle goes on whatever fetch_history returned
HistoryOk_Always(r) == TRUE
\* get_history_data: `if response:`
HistoryOk(r) == Truthy(r)

\* `if response:` then `async with self.last_update_lock`, else return
GetHistoryData_Response(t) ==
    /\ bg[t].pc = "gh_response"
    /\ IF HistoryOk(bg[t].response)
       THEN /\ last_update_lock = "free"
            /\ last_update_lock' = t
            /\ bg' = [bg EXCEPT ![t].pc = "gh_stamp"]
       ELSE /\ bg' = [bg EXCEPT ![t] = ToSleep(bg[t])]
            /\ UNCHANGED last_update_lock
    /\ UNCHANGED <<histVars, data, heap, last_update, data_lock, mirror, shutdown, ncycles,
                   remoteVars, timeVars, mainVars, rdVars>>

\* a faulty variant: the time of the newest activity returned, and the epoch
\* when there is none
HistoryStamp_NewestActivity(t) ==
    LET acts == ActivityData(bg[t].response)
    IN  IF acts = {} THEN Epoch
        ELSE TsStr((CHOOSE a \in acts : \A b \in acts : a.createdAt >= b.createdAt).createdAt
                     \div TicksPerSec)
\* the value get_history_data stores in self.last_update
HistoryStamp(t) == Strftime(now)

\* a faulty variant: the rest of get_history_data, get_card_data included,
\* runs inside the `async with self.last_update_lock` block
GetHistoryData_Stamp_HoldLock(t) ==
    /\ bg[t].pc = "gh_stamp"
    /\ last_update' = HistoryStamp(t)
    /\ LET activity_data == ActivityData(bg[t].response)
       IN  IF Cardinality(activity_data) > 0
           THEN /\ bg' = [bg EXCEPT ![t].pc = "gc_fetch",
                                    ![t].card_ids = {a.card : a \in activity_data}]
                /\ calls' = [calls EXCEPT !.cards = @ + 1]
                /\ UNCHANGED last_update_lock
           ELSE /\ bg' = [bg EXCEPT ![t] = ToSleep(bg[t])]
                /\ last_update_lock' = "free"
                /\ UNCHANGED calls
    /\ UNCHANGED <<histVars, data, heap, data_lock, mirror, shutdown, ncycles,
                   remote_card, activities, nedits, timeVars, mainVars, rdVars>>
\* self.last_update = now, the lock is left; with activities their card ids
\* are collected and fetch_cards is issued, without any the call returns
GetHistoryData_Stamp(t) ==
    /\ bg[t].pc = "gh_stamp"
    /\ last_update' = HistoryStamp(t)
    /\ last_update_lock' = "free"
    /\ LET activity_data == ActivityData(bg[t].response)
       IN  IF Cardinality(activity_data) > 0
           THEN /\ bg' = [bg EXCEPT ![t].pc = "gc_fetch",
                                    ![t].card_ids = {a.card : a \in activity_data}]
                /\ calls' = [calls EXCEPT !.cards = @ + 1]
           ELSE /\ bg' = [bg EXCEPT ![t] = ToSleep(bg[t])]
                /\ UNCHANGED calls
    /\ UNCHANGED <<histVars, data, heap, data_lock, mirror, shutdown, ncycles,
                   remote_card, activities, nedits, timeVars, mainVars, rdVars>>

\* ---------------------------------------------- CodecksData.get_card_data
\* fetch_cards returns
FetchCards_Return(t) ==
    /\ bg[t].pc = "gc_fetch"
    /\ \E r \in MakeRequest(CardsPayload(bg[t].card_ids)) :
          bg' = [bg EXCEPT ![t].pc = "gc_response", ![t].cresponse = r]
    /\ UNCHANGED <<histVars, shutdown, ncycles, cacheVars, remoteVars, timeVars, mainVars, rdVars>>

\* `if response:` then `async with self.data_lock`, else the error is logged
GetCardData_Response(t) ==
    /\ bg[t].pc = "gc_response"
    /\ IF Truthy(bg[t].cresponse)
       THEN /\ data_lock = "free"
            /\ data_lock' = t
            /\ bg' = [bg EXCEPT ![t].pc = "gc_merge"]
       ELSE /\ bg' = [bg EXCEPT ![t] = ToSleep(bg[t])]
            /\ UNCHANGED data_lock
    /\ UNCHANGED <<histVars, data, heap, last_update, last_update_lock, mirror, shutdown,
                   ncycles, remoteVars, timeVars, mainVars, rdVars>>

\* a faulty variant: the returned cards are written into the mapping object
\* that self.data["card"] names
Merge_InPlace(d, h, response) ==
    IF "card" \in DOMAIN d /\ "card" \in DOMAIN response
    THEN [d |-> d, h |-> [h EXCEPT ![d["card"]] = DictUpdate(@, response["card"])]]
    ELSE LET n == DocKeysAsRefs(response, h)
         IN  [d |-> DictUpdate(d, n.d), h |-> n.h]
\* a faulty variant: a card that is already there has the returned values
\* added to its own
Merge_Accumulate(d, h, response) ==
    IF "card" \in DOMAIN d /\ "card" \in DOMAIN response
    THEN LET old == Deref(h, d["card"])
             new == response["card"]
         IN  [d |-> d,
              h |-> [h EXCEPT ![d["card"]] =
                       [c \in DOMAIN old \cup DOMAIN new |->
                           IF c \in DOMAIN old /\ c \in DOMAIN new THEN old[c] + new[c]
                           ELSE IF c \in DOMAIN new THEN new[c] ELSE old[c]]]]
    ELSE LET n == DocKeysAsRefs(response, h)
         IN  [d |-> DictUpdate(d, n.d), h |-> n.h]
\* self.data.update(response): the dict and heap after the merge; the
\* response's mappings are new objects bound to the top-level keys
Merge(d, h, response) ==
    LET n == DocKeysAsRefs(response, h)
    IN  [d |-> DictUpdate(d, n.d), h |-> n.h]

\* `self.save_project()` without await: the coroutine object is made and
\* dropped, its body never runs, so the file stays as it is
SaveProject_NotAwaited(m) == m

\* self.data.update(response); self.save_project(); the data lock is left
GetCardData_Merge(t) ==
    /\ bg[t].pc = "gc_merge"
    /\ LET n == Merge(data, heap, bg[t].cresponse[1])
       IN  /\ data' = n.d
           /\ heap' = Collect(n.h, n.d, rd)
    /\ mirror' = SaveProject_NotAwaited(mirror)
    /\ data_lock' = "free"
    /\ bg' = [bg EXCEPT ![t] = ToSleep(bg[t])]
    /\ UNCHANGED <<histVars, last_update, last_update_lock, shutdown, ncycles,
                   remoteVars, timeVars, mainVars, rdVars>>

\* ------------------------------------------------------------- readers
\* the mapping restricted to the keys in ks
Restrict(f, ks) == [k \in DOMAIN f \cap ks |-> f[k]]
\* the next key a loop over `cards.values()` visits after the keys in done
NextKey(obj, done) ==
    CHOOSE k \in DOMAIN obj \ done : \A j \in DOMAIN obj \ done : k = j \/ k \in {"c1"}

\* a command handler calls one of the read operations; all four begin by
\* asking for the data lock
Read_Call(r) ==
    /\ Polling
    /\ rd[r].pc = "idle"
    /\ rd' = [rd EXCEPT ![r] = [Rd0 EXCEPT !.pc = "acquire"]]
    /\ UNCHANGED <<histVars, stop_called, cacheVars, remoteVars, timeVars, mainVars, bgVars>>

\* get_decks / get_cards / get_card_info / get_due_cards:
\* `async with self.data_lock` is entered
Read_Lock(r) ==
    /\ rd[r].pc = "acquire"
    /\ data_lock = "free"
    /\ data_lock' = r
    /\ rd' = [rd EXCEPT ![r].pc = "locked"]
    /\ UNCHANGED <<histVars, data, heap, last_update, last_update_lock, mirror, stop_called,
                   remoteVars, timeVars, mainVars, bgVars>>

\* the body under the lock: self.data.get("card", {}) and
\* self.data.get("deck", {}) give the mapping objects themselves, not copies;
\* get_card_info looks its card up under the lock; the lock is left
Read_Refs(r, op) ==
    /\ rd[r].pc = "locked"
    /\ data_lock' = "free"
    /\ IF op = "get_card_info"
       THEN \E c \in Cards :
               rd' = [rd EXCEPT ![r].pc = "done",
                                ![r].op = op,
                                ![r].seen = Restrict(SnapCards, {c}),
                                ![r].snap_cards = Restrict(SnapCards, {c})]
       ELSE rd' = [rd EXCEPT
                   ![r].op = op,
                   ![r].pc = IF op = "get_due_cards" THEN "cards" ELSE "decks",
                   ![r].cards = IF op = "get_decks" THEN 0 ELSE GetRef(data, "card"),
                   ![r].decks = IF op = "get_due_cards" THEN 0 ELSE GetRef(data, "deck"),
                   ![r].snap_cards = IF op = "get_decks" THEN EmptyDict ELSE SnapCards,
                   ![r].snap_decks = IF op = "get_due_cards" THEN EmptyDict ELSE SnapDecks]
    /\ UNCHANGED <<histVars, data, heap, last_update, last_update_lock, mirror, stop_called,
                   remoteVars, timeVars, mainVars, bgVars>>

\* outside the lock: the loop over decks.values() (in get_cards, and in the
\* handler that called get_decks)
Read_Decks(r) ==
    /\ rd[r].pc = "decks"
    /\ rd' = [rd EXCEPT ![r].seen_decks = Deref(heap, rd[r].decks),
                        ![r].pc = IF rd[r].op = "get_decks" \/ Deref(heap, rd[r].cards) = EmptyDict
                                  THEN "done" ELSE "cards"]
    /\ UNCHANGED <<histVars, stop_called, cacheVars, remoteVars, timeVars, mainVars, bgVars>>

\* outside the lock: one round of the loop over cards.values()
Read_Card(r) ==
    /\ rd[r].pc = "cards"
    /\ LET obj == Deref(heap, rd[r].cards)
           todo == DOMAIN obj \ DOMAIN rd[r].seen
       IN  IF todo = {}
           THEN rd' = [rd EXCEPT ![r].pc = "done"]
           ELSE LET c == NextKey(obj, DOMAIN rd[r].seen)
                IN  rd' = [rd EXCEPT ![r].seen = @ @@ (c :> obj[c]),
                                     ![r].pc = IF todo = {c} THEN "done" ELSE "cards"]
    /\ UNCHANGED <<histVars, stop_called, cacheVars, remoteVars, timeVars, mainVars, bgVars>>

\* the operation returns and the handler replies; its locals are dropped
Read_Return(r) ==
    /\ rd[r].pc = "done"
    /\ rd' = [rd EXCEPT ![r] = Rd0]
    /\ heap' = Collect(heap, data, rd')
    /\ UNCHANGED <<histVars, data, last_update, data_lock, last_update_lock, mirror,
                   stop_called, remoteVars, timeVars, mainVars, bgVars>>

\* ------------------------------------------------ dates in card contents
\* a piece of a card's content that DATE_REGEX looks at: a bracketed token
\* "[dd/mm/yy]" of three two-digit numbers, or other text (which may look
\* like a date, as "[1/2/24]" does, and is not matched)
Token(dd, mm, yy) == [kind |-> "token", dd |-> dd, mm |-> mm, yy |-> yy]
OtherText == [kind |-> "text", dd |-> 0, mm |-> 0, yy |-> 0]
\* card.get("content", "")
Content(card) == IF "content" \in DOMAIN card THEN card["content"] ELSE <<>>
\* re.findall(DATE_REGEX, content): the tokens, in the order of the text
IsToken(p) == p.kind = "token"
FindAll(content) == SelectSeq(content, IsToken)
\* re.search(DATE_REGEX, content) is truthy
Search(content) == \E i \in DOMAIN content : IsToken(content[i])

\* "%y": 00..68 are 2000..2068, 69..99 are 1969..1999
FullYear(yy) == IF yy <= 68 THEN 2000 + yy ELSE 1900 + yy
IsLeap(y) == y % 4 = 0 /\ (y % 100 # 0 \/ y % 400 = 0)
DaysInMonth(m, y) ==
    IF m = 2 THEN (IF IsLeap(y) THEN 29 ELSE 28)
    ELSE IF m \in {4, 6, 9, 11} THEN 30 ELSE 31
DaysBeforeMonth(m, y) ==
    <<0, 31, 59, 90, 120, 151, 181, 212, 243, 273, 304, 334>>[m]
      + (IF m > 2 /\ IsLeap(y) THEN 1 ELSE 0)
\* datetime.strptime(token, "[%d/%m/%y]") raises ValueError unless the token
\* names a day of the calendar
DateOk(t) ==
    /\ t.mm \in 1..12
    /\ t.dd \in 1..DaysInMonth(t.mm, FullYear(t.yy))
\* the parsed date, as the number of its day (date.toordinal)
Ordinal(d, m, y) ==
    365 * (y - 1) + ((y - 1) \div 4) - ((y - 1) \div 100) + ((y - 1) \div 400)
      + DaysBeforeMonth(m, y) + d
ParseDate(t) == Ordinal(t.dd, t.mm, FullYear(t.yy))

\* the day the process was started on
StartDate == Token(10, 1, 24)
SecondsPerDay == 86400
\* the day of datetime.now()
Today == ParseDate(StartDate) + (now \div (TicksPerSec * SecondsPerDay))

\* ------------------------------------------- CodecksData.get_due_cards
\* the keys of a mapping in the order a loop over it visits them
RECURSIVE KeysFrom(_, _)
KeysFrom(obj, done) ==
    IF DOMAIN obj \ done = {} THEN <<>>
    ELSE LET k == NextKey(obj, done)
         IN  <<k>> \o KeysFrom(obj, done \cup {k})
Keys(obj) == KeysFrom(obj, {})

\* cards_with_due_dates: {"card": card, "matches": findall} for the cards
\* whose content DATE_REGEX finds something in, in the order of the mapping
RECURSIVE DueEntriesOf(_, _)
DueEntriesOf(cards, ks) ==
    IF ks = <<>> THEN <<>>
    ELSE LET c == Head(ks)
             rest == DueEntriesOf(cards, Tail(ks))
         IN  IF Search(Content(cards[c]))
             THEN <<[id |-> c, card |-> cards[c], matches |-> FindAll(Content(cards[c]))]>>
                    \o rest
             ELSE rest
DueEntries(cards) == DueEntriesOf(cards, Keys(cards))

\* a faulty variant: the last token of the card
DueToken_Last(e) == e.matches[Len(e.matches)]
\* x["matches"][0]: the token get_due_cards parses for a card
DueToken(e) == e.matches[1]
\* the sort key: datetime.strptime(x["matches"][0], "[%d/%m/%y]")
SortKey(e) == ParseDate(DueToken(e))

\* list.sort(key=...): ascending by key, entries with equal keys keep their
\* order
InsertByKey(sorted, e) ==
    LET n == Cardinality({i \in DOMAIN sorted : SortKey(sorted[i]) <= SortKey(e)})
    IN  SubSeq(sorted, 1, n) \o <<e>> \o SubSeq(sorted, n + 1, Len(sorted))
RECURSIVE SortByKey(_)
SortByKey(entries) ==
    IF entries = <<>> THEN <<>>
    ELSE InsertByKey(SortByKey(SubSeq(entries, 1, Len(entries) - 1)),
                     entries[Len(entries)])

\* get_due_cards(days_ahead) on the cards mapping, on day today: the key of
\* every entry is computed, and strptime raises ValueError on a token that is
\* no date; with days_ahead > 0 the entries later than now + days_ahead are
\* dropped
GetDueCards(cards, days_ahead, today) ==
    LET entries == DueEntries(cards)
        InTime(e) == SortKey(e) <= today + days_ahead
    IN  IF \E i \in DOMAIN entries : ~DateOk(DueToken(entries[i]))
        THEN Raise("ValueError")
        ELSE IF days_ahead > 0
             THEN Return(SelectSeq(SortByKey(entries), InTime))
             ELSE Return(SortByKey(entries))

\* values of days_ahead a handler may pass (30 is the default)
DaysAhead == {-1, 0, 1, 30}

\* a handler calls get_due_cards: the mappings are taken under the data lock
\* and the list is computed
GetDueCards_Call(days_ahead) ==
    /\ Polling
    /\ data_lock = "free"
    /\ reply' = Some([op |-> "get_due_cards", arg |-> days_ahead, today |-> Today,
                      cards |-> SnapCards, decks |-> SnapDecks,
                      ended |-> GetDueCards(SnapCards, days_ahead, Today)])
    /\ UNCHANGED <<mirror0, written, nrestarts, req, delivered, cacheVars, remoteVars, timeVars,
                   mainVars, bgVars, rdVars>>

\* ----------------------------------------------- CodecksData.get_cards
\* strings are sequences of characters; str.lower() maps each character
LowerChar(ch) ==
    CASE ch = "S" -> "s" [] ch = "P" -> "p" [] ch = "A" -> "a" [] ch = "R" -> "r"
      [] OTHER -> ch
Lower(str) == [i \in DOMAIN str |-> LowerChar(str[i])]
\* `a in b` on strings: a is a substring of b (the empty string of every one)
In(a, b) ==
    \E i \in 0..(Len(b) - Len(a)) : SubSeq(b, i + 1, i + Len(a)) = a
\* deck_info.get("title", "")
Title(deck_info) == IF "title" \in DOMAIN deck_info THEN deck_info["title"] ELSE <<>>
\* a faulty variant: the case of the letters counts
TitleMatches_CaseSensitive(deck_id, deck_info) == In(deck_id, Title(deck_info))
\* deck_id.lower() in deck_info.get("title", "").lower()
TitleMatches(deck_id, deck_info) == In(Lower(deck_id), Lower(Title(deck_info)))
\* d.get(k): None for a key that is not there
Get(d, k) == IF k \in DOMAIN d THEN Some(d[k]) ELSE None

\* the cards of the list get_cards builds, in the order of the mapping
RECURSIVE MatchingCardsOf(_, _, _)
MatchingCardsOf(cards, ks, matching_decks) ==
    IF ks = <<>> THEN <<>>
    ELSE LET c == Head(ks)
             rest == MatchingCardsOf(cards, Tail(ks), matching_decks)
         IN  IF Get(cards[c], "deckId") \in matching_decks
             THEN <<[id |-> c, card |-> cards[c]]>> \o rest
             ELSE rest
\* get_cards(deck_id) on the cards and decks mappings: the ids of the decks
\* whose title matches, then the cards whose deckId is one of them
GetCards(cards, decks, deck_id) ==
    LET matching_decks == {Get(decks[k], "id") :
                              k \in {x \in DOMAIN decks : TitleMatches(deck_id, decks[x])}}
    IN  Return(MatchingCardsOf(cards, Keys(cards), matching_decks))

\* deck filters a handler may pass ("" is the default)
Filters == {<<>>, <<"s", "p">>, <<"S", "P">>, <<"a">>, <<"p", "r">>, <<"x">>}

\* a handler calls get_cards: the mappings are taken under the data lock and
\* the list is computed
GetCards_Call(deck_id) ==
    /\ Polling
    /\ data_lock = "free"
    /\ reply' = Some([op |-> "get_cards", arg |-> deck_id, today |-> Today,
                      cards |-> SnapCards, decks |-> SnapDecks,
                      ended |-> GetCards(SnapCards, SnapDecks, deck_id)])
    /\ UNCHANGED <<mirror0, written, nrestarts, req, delivered, cacheVars, remoteVars, timeVars,
                   mainVars, bgVars, rdVars>>

\* ------------------------------------------------------------------- spec
\* the host task, the background task, the clock and the card service
NextCache ==
    \/ \E c \in Cards : RemoteEdit(c)
    \/ LoadProject_Check
    \/ GetProjectData_Lock
    \/ GetProjectData_Stamp
    \/ FetchProject_Return
    \/ GetProjectData_Response
    \/ GetProjectData_Install
    \/ SaveProject_Read
    \/ SaveProject_Write
    \/ LoadProject_Open
    \/ LoadProject_Stamp
    \/ AsyncInit_CreateTask
    \/ Bot_StartPolling
    \/ Bot_StayAlive
    \/ \E t \in Refreshers : CheckForActivity_Loop(t)
    \/ \E t \in Refreshers : CheckForActivity_Wake(t)
    \/ \E t \in Refreshers : GetHistoryData_Lock(t)
    \/ \E t \in Refreshers : GetHistoryData_Read(t)
    \/ \E t \in Refreshers : FetchHistory_Return(t)
    \/ \E t \in Refreshers : GetHistoryData_Response(t)
    \/ \E t \in Refreshers : GetHistoryData_Stamp(t)
    \/ \E t \in Refreshers : FetchCards_Return(t)
    \/ \E t \in Refreshers : GetCardData_Response(t)
    \/ \E t \in Refreshers : GetCardData_Merge(t)

\* the command handlers that read the cache
NextRead ==
    \/ \E r \in Readers : Read_Call(r)
    \/ \E r \in Readers : Read_Lock(r)
    \/ \E r \in Readers, op \in ReadOps : Read_Refs(r, op)
    \/ \E r \in Readers : Read_Decks(r)
    \/ \E r \in Readers : Read_Card(r)
    \/ \E r \in Readers : Read_Return(r)

Next == NextCache \/ Stop

\* the cache, its writers and the stop command
Spec == Init /\ [][Next]_vars

\* the cache, its writers and its readers, started without a mirror
InitRead == Init /\ mirror = NoFile
ReadNext == NextCache \/ NextRead
ReadSpec == InitRead /\ [][ReadNext]_vars

\* the cache and its writers, over successive runs of the process
RestartNext == NextCache \/ Restart
RestartSpec == Init /\ [][RestartNext]_vars

\* the remote client by itself: one of its three operations is called while
\* the card service is in some state, and requests.request does one of the
\* things it can do
ApiOps == {"fetch_project", "fetch_history", "fetch_cards"}
ApiBodies(op) ==
    CASE op = "fetch_project" -> {ProjectPayload}
      [] op = "fetch_history" ->
            {HistoryPayload(TsDatetime(k)) : k \in 0..(now \div TicksPerSec)}
      [] op = "fetch_cards" -> {CardsPayload(ids) : ids \in SUBSET Cards}
ApiCall(op) ==
    /\ \E body \in ApiBodies(op) : \E t \in RequestsRequest(body) :
          req' = Some([op |-> op, body |-> body, met |-> t, ended |-> MakeRequestOn(t)])
    /\ UNCHANGED <<mirror0, written, nrestarts, reply, delivered, cacheVars, remoteVars, timeVars,
                   mainVars, bgVars, rdVars>>
ApiNext ==
    \/ \E c \in Cards : RemoteEdit(c)
    \/ \E op \in ApiOps : ApiCall(op)
ApiSpec == Init /\ [][ApiNext]_vars

\* the read operations by themselves: the process is started on a file some
\* earlier run has left, loads it, and handlers call the operations
Pieces == {Token(5, 1, 24), Token(1, 2, 24), Token(31, 12, 99), Token(31, 2, 24),
           OtherText}
RECURSIVE SeqsUpTo(_, _)
SeqsUpTo(S, n) ==
    IF n = 0 THEN {<<>>}
    ELSE LET shorter == SeqsUpTo(S, n - 1)
         IN  shorter \cup {Append(q, x) : q \in shorter, x \in S}
Contents == SeqsUpTo(Pieces, MaxPieces)
DueCardValues ==
    {[deckId |-> "d1", content |-> c] : c \in Contents} \cup {[deckId |-> "d1"]}
DueDocs ==
    {[deck |-> [d \in Decks |-> [id |-> d, title |-> <<>>]], card |-> cards,
      last_update |-> TsStr(0)] : cards \in [Cards -> DueCardValues]}
\* decks with their ids (fetch_project asks for "id" and "title") and with or
\* without a title; cards of either deck, of a deck that is not there, or
\* without a deckId
QueryDecks == {"d1", "d2"}
Titles == {<<"S", "p", "r">>, <<"s", "p">>, <<"A", "r">>, <<>>}
DeckValues(d) == {[id |-> d, title |-> t] : t \in Titles} \cup {[id |-> d]}
DeckCardValues ==
    {[deckId |-> d, content |-> <<>>] : d \in QueryDecks \cup {"d9"}}
      \cup {[content |-> <<>>]}
DeckDocs ==
    {[deck |-> decks, card |-> cards, last_update |-> TsStr(0)] :
        decks \in {f \in [QueryDecks -> UNION {DeckValues(d) : d \in QueryDecks}] :
                      \A d \in QueryDecks : f[d] \in DeckValues(d)},
        cards \in [Cards -> DeckCardValues]}
QueryInit == InitOn({File(doc) : doc \in DueDocs \cup DeckDocs})
QueryNext ==
    \/ LoadProject_Check
    \/ LoadProject_Open
    \/ LoadProject_Stamp
    \/ AsyncInit_CreateTask
    \/ Bot_StartPolling
    \/ \E days_ahead \in DaysAhead : GetDueCards_Call(days_ahead)
    \/ \E deck_id \in Filters : GetCards_Call(deck_id)
QuerySpec == QueryInit /\ [][QueryNext]_vars

\* a step of background task t
BgStep(t) ==
    \/ CheckForActivity_Loop(t)
    \/ CheckForActivity_Wake(t)
    \/ GetHistoryData_Lock(t)
    \/ GetHistoryData_Read(t)
    \/ FetchHistory_Return(t)
    \/ GetHistoryData_Response(t)
    \/ GetHistoryData_Stamp(t)
    \/ FetchCards_Return(t)
    \/ GetCardData_Response(t)
    \/ GetCardData_Merge(t)
\* the event loop runs a task that is ready (asyncio runs ready callbacks in
\* turn; a sleep and a remote call with timeout=10 come to an end)
LiveSpec == Init /\ [][NextCache]_vars /\ \A t \in Refreshers : WF_vars(BgStep(t))

\* ------------------------------------------------------------- properties
\* task t has returned from get_history_data and sleeps
CycleOver(t) == bg[t].pc = "sleep"
\* what the cycle of task t got from the card service
HistoryFailed(t) == ~Truthy(bg[t].response)
NoActivity(t) == Truthy(bg[t].response) /\ ActivityData(bg[t].response) = {}
CardsCalled(t) == Truthy(bg[t].response) /\ ActivityData(bg[t].response) # {}
CardsFailed(t) == CardsCalled(t) /\ ~Truthy(bg[t].cresponse)
Merged(t) == CardsCalled(t) /\ Truthy(bg[t].cresponse)

\* C1 (as claimed): when fetch_history succeeds with at least one activity but
\* fetch_cards fails, last_update at the end of the cycle equals last_update
\* at its start.
C1_CardsFailureKeepsLastUpdate ==
    \A t \in Refreshers :
        CycleOver(t) /\ CardsFailed(t) =>
            last_update.sec = bg[t].start.last_update.sec

\* C2: when fetch_history fails, the cycle leaves last_update, the decks and
\* cards mappings and the mirror as they were when it began and issues no
\* fetch_cards call.
C2_HistoryFailureChangesNothing ==
    \A t \in Refreshers :
        CycleOver(t) /\ HistoryFailed(t) =>
            /\ last_update = bg[t].start.last_update
            /\ SnapDecks = bg[t].start.decks
            /\ SnapCards = bg[t].start.cards
            /\ mirror = bg[t].start.mirror
            /\ calls.cards = bg[t].start.calls.cards
\* a cycle whose fetch_history failed although the service had an activity
\* for it is over
C2_Witness ==
    \E t \in Refreshers :
        /\ CycleOver(t) /\ HistoryFailed(t)
        /\ activities # {}
        /\ bg[t].start.cards # EmptyDict
        /\ calls.history = bg[t].start.calls.history + 1

\* C3: over bootstrap and any number of refresh cycles the value of
\* last_update never decreases.
C3_LastUpdateNeverDecreases == [][last_update'.sec >= last_update.sec]_vars
\* bootstrap moved last_update off the epoch and a refresh cycle moved it on
C3_Witness ==
    \E t \in Refreshers :
        /\ CycleOver(t)
        /\ bg[t].start.last_update.sec > 0
        /\ last_update.sec > bg[t].start.last_update.sec

\* C4 (as claimed): after a merge every card returned by fetch_cards has the
\* returned values, every card of the snapshot that was not returned is
\* still there unchanged, and so is the decks mapping.
C4_MergeIsInsertOrReplaceById ==
    \A t \in Refreshers :
        CycleOver(t) /\ Merged(t) =>
            LET returned == bg[t].cresponse[1]["card"]
                before == bg[t].start.cards
            IN  /\ \A c \in DOMAIN returned :
                      c \in DOMAIN SnapCards /\ SnapCards[c] = returned[c]
                /\ \A c \in DOMAIN before \ DOMAIN returned :
                      c \in DOMAIN SnapCards /\ SnapCards[c] = before[c]
                /\ SnapDecks = bg[t].start.decks

\* the file holds the snapshot and last_update of the memory
MirrorIsCurrent ==
    /\ mirror.st = "doc"
    /\ {"deck", "card", "last_update"} \subseteq DOMAIN mirror.doc
    /\ mirror.doc["deck"] = SnapDecks
    /\ mirror.doc["card"] = SnapCards
    /\ mirror.doc["last_update"].sec = last_update.sec

\* C5 (as claimed): after every successful refresh cycle, with or without
\* activity, the mirror holds the snapshot and the last_update of the memory
\* (stated for the processes that wrote their mirror at bootstrap).
C5_SuccessfulCycleRewritesMirror ==
    \A t \in Refreshers :
        /\ CycleOver(t) /\ (NoActivity(t) \/ Merged(t))
        /\ mirror0 = NoFile /\ mirror.st = "doc"
        => MirrorIsCurrent

\* C6: the cards and decks a reader computes on are those of the snapshot
\* that was installed while it held the data lock, whole: a merge that comes
\* after the reader left the lock, while it still computes, shows in none of
\* the values it sees.
C6_ReaderSeesOneSnapshot ==
    \A r \in Readers :
        /\ rd[r].pc \in {"cards", "done"} =>
              \A c \in DOMAIN rd[r].seen :
                 c \in DOMAIN rd[r].snap_cards /\ rd[r].seen[c] = rd[r].snap_cards[c]
        /\ rd[r].pc = "done" =>
              /\ rd[r].seen = rd[r].snap_cards
              /\ rd[r].seen_decks = rd[r].snap_decks
\* a reader has left the lock and is half-way through the cards when the
\* snapshot is no longer the one it took
C6_Witness ==
    \E r \in Readers :
        /\ rd[r].pc = "cards"
        /\ rd[r].seen # EmptyDict
        /\ SnapCards # rd[r].snap_cards

\* a remote call of the task is in flight
InFlight(task) ==
    IF task = "main" THEN mpc = "gp_fetch" ELSE bg[task].pc \in {"gh_fetch", "gc_fetch"}
Writers == {"main"} \cup Refreshers

CyclePcs == {"gh_lock", "gh_read", "gh_fetch", "gh_response", "gh_stamp",
             "gc_fetch", "gc_response", "gc_merge"}
BootPcs == {"load_project", "gp_lock", "gp_stamp", "gp_fetch", "gp_response",
            "gp_install", "sp_read", "sp_write", "lp_open", "lp_stamp", "crashed"}

\* C8: at most one refresh cycle runs at a time: one background task is
\* created, after load_project has returned, and it is back at the top of its
\* loop only when its sleep interval has passed.
C8_SingleFlight ==
    /\ Cardinality({t \in Refreshers : bg[t].pc \in CyclePcs}) <= 1
    /\ Cardinality({t \in Refreshers : bg[t].pc # "none"}) =
          IF mpc \in BootPcs \cup {"lp_done"} THEN 0 ELSE 1
    /\ \A t \in Refreshers : bg[t].pc = "loop" => now >= bg[t].wake
\* the second cycle of the task runs, a full interval after the first
C8_Witness ==
    \E t \in Refreshers :
        /\ ncycles = 2
        /\ bg[t].pc \in CyclePcs
        /\ now >= StartTick + Interval

\* C9 (as claimed): once the stop command has invoked the shutdown callback
\* the shutdown flag of the background task is true, the host's stay_alive is
\* false and the background task begins no further cycle.
C9_StopShutsDown ==
    [][stop_called =>
          /\ shutdown' /\ ~stay_alive'
          /\ \A t \in Refreshers : ~(bg[t].pc = "loop" /\ bg'[t].pc = "gh_lock")]_vars

\* C10: load_project issues fetch_project exactly when there is no mirror
\* file: no remote call with a file present, readable or not, and exactly
\* one fetch_project call without one.
C10_FetchProjectIffNoMirror ==
    /\ calls.project = IF mirror0 = NoFile /\ mpc \notin {"load_project", "gp_lock", "gp_stamp"}
                       THEN 1 ELSE 0
    /\ mpc \in BootPcs \cup {"lp_done"} => calls.history = 0 /\ calls.cards = 0
\* bootstrap is over: with no file after one call, with a garbled file after none
C10_Witness ==
    /\ mpc = "lp_done"
    /\ calls.project = 1
    /\ mirror0 = NoFile
C10_WitnessFile ==
    /\ mpc = "lp_done"
    /\ calls.project = 0
    /\ mirror0 = Garbled

\* bootstrap is over and the process has begun no refresh cycle
Bootstrapped ==
    /\ mpc \notin BootPcs
    /\ \A t \in Refreshers : bg[t].pc = "none" \/ (bg[t].pc = "loop" /\ bg[t].wake = 0)
\* the bootstrap found no mirror, fetch_project returned a payload and the
\* file was written
BootstrapFetched ==
    /\ Bootstrapped
    /\ mirror0 = NoFile
    /\ Truthy(mlocal.response)
    /\ mirror.st = "doc"

\* C11: after a successful bootstrap with no mirror the decks and cards of the
\* snapshot are those of the fetch_project payload, the mirror holds them with
\* the stamp, and last_update is the clock (to the second) read before
\* fetch_project was issued, whatever time has passed during the fetch.
C11_BootstrapInstallsPayload ==
    BootstrapFetched =>
        LET payload == mlocal.response[1]
            stamp == mlocal.issued \div TicksPerSec
        IN  /\ SnapDecks = payload["deck"]
            /\ SnapCards = payload["card"]
            /\ DOMAIN data = {"deck", "card", "last_update"}
            /\ mirror = File(DictSet(payload, "last_update", TsStr(stamp)))
            /\ last_update = TsDatetime(stamp)
\* the clock moved on to the next second while fetch_project was in flight
C11_Witness ==
    /\ BootstrapFetched
    /\ now \div TicksPerSec > mlocal.issued \div TicksPerSec
    /\ \E a \in activities : a.createdAt > mlocal.issued

\* C12: what save_project wrote from memory (decks, cards, last_update), a
\* later run of the process that finds that file has again after its
\* bootstrap: equal decks, equal cards, and last_update the written time to
\* the second, as a datetime.
C12_PersistLoadRoundTrip ==
    /\ Bootstrapped
    /\ written # None /\ written[1].by < nrestarts
    /\ mirror0.st = "doc"
    => /\ SnapDecks = written[1].deck
       /\ SnapCards = written[1].card
       /\ last_update = TsDatetime(written[1].last_update.sec)
\* a later run has loaded a file whose cards had been edited before they were
\* fetched and whose stamp is past the epoch
C12_Witness ==
    /\ Bootstrapped
    /\ written # None /\ written[1].by < nrestarts
    /\ mirror0.st = "doc"
    /\ written[1].last_update.sec > 0
    /\ \E c \in Cards : written[1].card[c] > 0

\* the file the process found could not be decoded: json.load or the strptime
\* of its last_update raised
DecodeFailed ==
    /\ mpc \notin BootPcs
    /\ \/ mirror0.st = "garbled"
       \/ /\ mirror0.st = "doc"
          /\ ~("last_update" \in DOMAIN mirror0.doc /\ StrptimeOk(mirror0.doc["last_update"]))

\* C13 (as claimed): when decoding the mirror failed during bootstrap the
\* snapshot is empty, so that the reads return no decks and no cards, in every
\* later state of the process, refresh cycles included.
C13_DecodeFailureLeavesSnapshotEmpty ==
    DecodeFailed => SnapDecks = EmptyDict /\ SnapCards = EmptyDict

\* C14: every call of the remote client returns, never raises; what it
\* returns is the decoded body when requests.request gave a response with
\* status 200 whose body decodes, and None in every other case (another
\* status, a timeout, a transport error, any other exception, a body that
\* does not decode).
C14_PayloadOrNone ==
    req # None =>
        LET met == req[1].met
            ok == /\ met.kind = "return"
                  /\ met.value.status_code = 200
                  /\ met.value.decodable
        IN  /\ req[1].ended.kind = "return"
            /\ req[1].ended.value = IF ok THEN Some(req[1].body) ELSE None
            /\ req[1].ended.value \in MakeRequest(req[1].body)
\* fetch_cards met an exception that is no requests exception, and
\* fetch_history a 200 whose body is not JSON
C14_Witness ==
    /\ req # None
    /\ req[1].op = "fetch_cards"
    /\ req[1].met = Raise("ValueError")
    /\ req[1].ended = Return(None)
C14_WitnessUndecodable ==
    /\ req # None
    /\ req[1].op = "fetch_history"
    /\ req[1].met.kind = "return" /\ req[1].met.value.status_code = 200
    /\ ~req[1].met.value.decodable
    /\ req[1].ended = Return(None)

\* the bootstrap found no mirror and fetch_project gave no payload
BootstrapFetchFailed ==
    /\ Bootstrapped
    /\ mirror0 = NoFile
    /\ calls.project > 0
    /\ ~Truthy(mlocal.response)

\* C15 (as claimed): when fetch_project fails during a bootstrap with no
\* mirror, the snapshot is still empty, no file has been written and
\* last_update has the value it had before the bootstrap started.
C15_FailedBootstrapPreservesState ==
    BootstrapFetchFailed =>
        /\ data = EmptyDict
        /\ mirror = NoFile
        /\ last_update = Epoch

\* the bootstrap fetched the project and save_project could not put it on
\* disk: the directory could not be made or the file could not be written
SaveFailed ==
    /\ mirror0 = NoFile
    /\ Truthy(mlocal.response)
    /\ mpc \notin {"load_project", "gp_lock", "gp_stamp", "gp_fetch", "gp_response",
                    "gp_install", "sp_read", "sp_write"}
    /\ mirror.st # "doc"

\* C16 (as claimed): a failure of save_project to write to the disk does not
\* abort the bootstrap that called it, and once the bootstrap is over the
\* memory holds the fetched decks and cards and the stamp taken for them.
C16_WriteFailureKeepsMemory ==
    SaveFailed =>
        /\ mpc # "crashed"
        /\ mpc # "lp_open" =>
              /\ ncycles = 0 => /\ SnapDecks = mlocal.response[1]["deck"]
                                /\ SnapCards = mlocal.response[1]["card"]
              /\ last_update.sec >= mlocal.issued \div TicksPerSec

\* the earliest of the dates of a card's tokens
EarliestDue(e) ==
    CHOOSE d \in {ParseDate(e.matches[i]) : i \in DOMAIN e.matches} :
        \A i \in DOMAIN e.matches : d <= ParseDate(e.matches[i])
\* every token of every card names a day of the calendar
AllTokensValid(cards) ==
    \A c \in DOMAIN cards :
        \A i \in DOMAIN Content(cards[c]) :
            IsToken(Content(cards[c])[i]) => DateOk(Content(cards[c])[i])
\* the last call was get_due_cards on cards whose tokens are all dates
DueReply ==
    /\ reply # None
    /\ reply[1].op = "get_due_cards"
    /\ AllTokensValid(reply[1].cards)

\* C17 (as claimed): get_due_cards (unfiltered) returns each card whose
\* content has at least one date token once and no other card, in ascending
\* order of the earliest date among each card's tokens.
C17_DueCardsSortedByEarliest ==
    DueReply /\ reply[1].arg <= 0 =>
        LET out == reply[1].ended
            cards == reply[1].cards
        IN  /\ out.kind = "return"
            /\ {out.value[i].id : i \in DOMAIN out.value}
                  = {c \in DOMAIN cards : Search(Content(cards[c]))}
            /\ Len(out.value) = Cardinality({c \in DOMAIN cards : Search(Content(cards[c]))})
            /\ \A i, j \in DOMAIN out.value :
                  i < j => EarliestDue(out.value[i]) <= EarliestDue(out.value[j])

\* the entries of a in b's order are all of a, in a's order (entries are
\* distinct: one per card)
IsSubsequence(a, b) ==
    LET InA(e) == \E i \in DOMAIN a : a[i] = e
    IN  a = SelectSeq(b, InA)

\* C18 (as claimed): get_due_cards(N) with N > 0 returns exactly the cards
\* with a date token whose earliest date is on or before now + N days, with
\* N <= 0 every card with a date token; either result is a subsequence of the
\* unfiltered sorted result.
C18_DaysAheadFilter ==
    DueReply =>
        LET out == reply[1].ended
            cards == reply[1].cards
            n == reply[1].arg
            due == {c \in DOMAIN cards : Search(Content(cards[c]))}
            Earliest(c) == EarliestDue([matches |-> FindAll(Content(cards[c]))])
            all == GetDueCards(cards, 0, reply[1].today)
        IN  /\ out.kind = "return"
            /\ {out.value[i].id : i \in DOMAIN out.value}
                  = IF n > 0 THEN {c \in due : Earliest(c) <= reply[1].today + n}
                    ELSE due
            /\ IsSubsequence(out.value, all.value)

\* the string a, letters lowered, occurs in the string b, letters lowered
ContainsIgnoringCase(b, a) ==
    \E i \in 0..(Len(b) - Len(a)) :
        \A j \in 1..Len(a) : LowerChar(b[i + j]) = LowerChar(a[j])

\* C19: get_cards(deck_filter) returns, once each, exactly the cards whose
\* deckId is the id of a deck whose title contains the filter, the case of
\* letters aside; with the empty filter these are the cards of all decks.
C19_GetCardsFiltersByDeckTitle ==
    reply # None /\ reply[1].op = "get_cards" =>
        LET out == reply[1].ended
            cards == reply[1].cards
            decks == reply[1].decks
            filter == reply[1].arg
            OfDecks(ds) == {c \in DOMAIN cards :
                              /\ "deckId" \in DOMAIN cards[c]
                              /\ \E d \in ds : decks[d]["id"] = cards[c]["deckId"]}
            matched == {d \in DOMAIN decks : ContainsIgnoringCase(Title(decks[d]), filter)}
        IN  /\ out.kind = "return"
            /\ {out.value[i].id : i \in DOMAIN out.value} = OfDecks(matched)
            /\ Len(out.value) = Cardinality(OfDecks(matched))
            /\ \A i \in DOMAIN out.value : out.value[i].card = cards[out.value[i].id]
            /\ filter = <<>> => matched = DOMAIN decks
\* the filter "SP" matched two decks whose titles are "Spr" and "sp", with a
\* card in each
C19_Witness ==
    /\ reply # None /\ reply[1].op = "get_cards"
    /\ reply[1].arg = <<"S", "P">>
    /\ DOMAIN reply[1].decks = QueryDecks
    /\ \A c \in DOMAIN reply[1].cards : "deckId" \in DOMAIN reply[1].cards[c]
    /\ Title(reply[1].decks["d1"]) = <<"S", "p", "r">>
    /\ Title(reply[1].decks["d2"]) = <<"s", "p">>
    /\ {reply[1].cards[c]["deckId"] : c \in DOMAIN reply[1].cards} = {"d1", "d2"}
    /\ Len(reply[1].ended.value) = 2
\* the empty filter on decks without any title, and a card of no deck
C19_WitnessEmptyFilter ==
    /\ reply # None /\ reply[1].op = "get_cards"
    /\ reply[1].arg = <<>>
    /\ \A d \in DOMAIN reply[1].decks : "title" \notin DOMAIN reply[1].decks[d]
    /\ \E c \in DOMAIN reply[1].cards : "deckId" \notin DOMAIN reply[1].cards[c]
    /\ Len(reply[1].ended.value) = 1

\* the document a dict and its objects stand for after a merge
MergedDoc(n) == Serialize(n.d, n.h)

\* C20: whenever get_card_data is about to merge a card payload into the
\* snapshot, merging it a second time right after the first gives the same
\* decks, cards and other keys as merging it once.
C20_MergeIdempotent ==
    \A t \in Refreshers :
        bg[t].pc = "gc_merge" =>
            LET response == bg[t].cresponse[1]
                once == Merge(data, heap, response)
                twice == Merge(once.d, once.h, response)
            IN  MergedDoc(twice) = MergedDoc(once)
\* a payload with an edited card is about to be merged into a snapshot that
\* has the card with its old values, and another card
C20_Witness ==
    \E t \in Refreshers :
        /\ bg[t].pc = "gc_merge"
        /\ \E c \in DOMAIN bg[t].cresponse[1]["card"] :
              /\ c \in DOMAIN SnapCards
              /\ SnapCards[c] # bg[t].cresponse[1]["card"][c]
              /\ bg[t].cresponse[1]["card"][c] > 0
        /\ DOMAIN SnapCards # DOMAIN bg[t].cresponse[1]["card"]
        /\ MergedDoc(Merge(data, heap, bg[t].cresponse[1])) # Serialize(data, heap)

\* fetch_history has not returned activity a, and no call that is now in
\* flight or yet to be issued asks for it: every later call asks for what
\* came after last_update, which never decreases
Missed(a) ==
    /\ a \notin delivered
    /\ a.createdAt <= last_update.sec * TicksPerSec
    /\ \A t \in Refreshers :
          bg[t].pc = "gh_fetch" => a.createdAt <= bg[t].last_update_time.sec * TicksPerSec

\* C21 (as claimed): change detection has no gaps: no activity created after
\* the bootstrap timestamp is left behind the window of the calls to come
\* without a fetch_history call having returned it.
C21_NoGapInChangeDetection ==
    mpc \notin BootPcs \cup {"lp_done"} =>
        \A a \in activities :
            a.createdAt > mlocal.boot * TicksPerSec => ~Missed(a)

\* C22: with the shutdown flag unset the background task never stops: a
\* cycle that has begun comes to its end, whatever the service returned;
\* every cycle ends in a sleep of the fixed interval; the task leaves the
\* top of its loop only into a new cycle whose locals are fresh; and a
\* sleeping task begins its next cycle (as long as the model lets cycles
\* begin).
C22_RefresherNeverStops ==
    /\ [][\A t \in Refreshers :
            bg[t].pc \in CyclePcs /\ bg'[t].pc \notin CyclePcs =>
                bg'[t].pc = "sleep" /\ bg'[t].wake = now + Interval]_vars
    /\ [][\A t \in Refreshers :
            bg[t].pc = "loop" /\ bg'[t].pc # "loop" /\ ~shutdown =>
                /\ [bg'[t] EXCEPT !.start = Bg0.start] = [Bg0 EXCEPT !.pc = "gh_lock"]
                /\ now >= bg[t].wake]_vars
    /\ (\E t \in Refreshers : bg[t].pc \in CyclePcs)
          ~> (\E t \in Refreshers : bg[t].pc = "sleep")
    /\ ((\E t \in Refreshers : bg[t].pc = "sleep") /\ ncycles < MaxCycles /\ ~shutdown)
          ~> (\E t \in Refreshers : bg[t].pc = "gh_lock")
\* the second cycle is under way, a full interval after a first cycle in
\* which fetch_history failed
C22_Witness ==
    \E t \in Refreshers :
        /\ ncycles = 2
        /\ bg[t].pc \in CyclePcs
        /\ calls.history >= 1
        /\ last_update = Epoch
        /\ now >= StartTick + Interval
        /\ ~shutdown

\* the tasks of the process
Tasks == {"main"} \cup Refreshers \cup DOMAIN rd
\* the lock a task is about to enter the `async with` of: "data", "stamp" or
\* "none"
Awaits(task) ==
    IF task = "main"
    THEN CASE mpc = "gp_lock" -> "stamp"
           [] mpc = "gp_response" /\ Truthy(mlocal.response) -> "data"
           [] mpc = "gp_install" -> "stamp"
           [] mpc = "lp_open" /\ mirror.st = "doc" -> "stamp"
           [] OTHER -> "none"
    ELSE IF task \in Refreshers
    THEN CASE bg[task].pc = "gh_lock" -> "stamp"
           [] bg[task].pc = "gh_response" /\ HistoryOk(bg[task].response) -> "stamp"
           [] bg[task].pc = "gc_response" /\ Truthy(bg[task].cresponse) -> "data"
           [] OTHER -> "none"
    ELSE IF rd[task].pc = "acquire" THEN "data" ELSE "none"
Holder(lock) == IF lock = "data" THEN data_lock ELSE last_update_lock
\* the task waits for a lock another task or itself holds
Blocked(task) == Awaits(task) # "none" /\ Holder(Awaits(task)) # "free"
\* no task waits for a lock it holds, and a task that holds a lock another
\* waits for is either not waiting or waits for a lock whose holder is not
\* waiting: no circle of waiting tasks
NoLockCycle ==
    \A task \in Tasks :
        Blocked(task) =>
            LET h == Holder(Awaits(task))
            IN  /\ h # task
                /\ Blocked(h) => /\ Holder(Awaits(h)) \notin {h, task}
                                 /\ ~Blocked(Holder(Awaits(h)))

\* C23: the data lock is never taken by a task that holds the timestamp
\* lock (both are held only with the data lock taken first), no task asks
\* for a lock it holds, and in no state is there a circle of tasks waiting
\* for each other's locks.
C23_LockOrder ==
    /\ [][\A task \in Tasks :
            data_lock # task /\ data_lock' = task => last_update_lock # task]_vars
    /\ [][NoLockCycle /\ NoLockCycle']_vars
\* the host task holds the data lock and, inside it, the timestamp lock
C23_Witness ==
    /\ data_lock = "main"
    /\ last_update_lock = "main"
\* a handler waits for the data lock, which a background task holds for its
\* merge
C23_WitnessReaderWaits ==
    \E r \in Readers, t \in Refreshers : Blocked(r) /\ data_lock = t

\* C24 (as claimed): get_due_cards returns a list whatever the cards hold; a
\* card with a token of the bracketed two-digit shape that names no day of
\* the calendar does not make the call fail, and without a filter every card
\* whose tokens are all dates is in the list.
C24_InvalidTokenIsPerCard ==
    reply # None /\ reply[1].op = "get_due_cards" =>
        LET out == reply[1].ended
            cards == reply[1].cards
            Valid(c) == /\ Search(Content(cards[c]))
                        /\ \A i \in DOMAIN Content(cards[c]) :
                              IsToken(Content(cards[c])[i]) => DateOk(Content(cards[c])[i])
        IN  /\ out.kind = "return"
            /\ reply[1].arg <= 0 =>
                  \A c \in DOMAIN cards :
                      Valid(c) => \E i \in DOMAIN out.value : out.value[i].id = c

====
